---- MODULE Spec2Model ----
(***************************************************************************)
(* Model of src/src/cache.ts: the swr() and memo() wrappers, their         *)
(* flat-cache backed stores, the module-level registry `caches` and        *)
(* clearAllCaches().                                                       *)
(*                                                                         *)
(* Time is counted in abstract units; one unit stands for an arbitrary     *)
(* number of milliseconds.  The producer wrapped by an instance is the     *)
(* counting producer of the test-suite (`async () => ++calls`): its n-th   *)
(* invocation yields n, or rejects.                                        *)
(***************************************************************************)
EXTENDS Integers, Sequences, FiniteSets, TLC

(* ------------------------------ bounds --------------------------------- *)
MaxInst == 2      \* cache names available to swr()/memo()
MaxCalls == 2     \* producer invocations explored per instance
MaxTasks == 2     \* producer invocations in flight at the same time
MaxTime == 4      \* last clock value explored
RegCalls == 1     \* producer invocations per instance in SpecReg and SpecFail

(* --------------------- configuration (astro:env/server) ---------------- *)
\* ASTRO_CACHE_MIN_TIME_TO_STALE and ASTRO_CACHE_MAX_TIME_TO_LIVE in clock
\* units of the model; as in the defaults, the first is below the second.
MinTimeToStale == 1
MaxTimeToLive == 2
FLAT_CACHE_TTL == MaxTimeToLive * 2

Names == 1..MaxInst

\* JavaScript values passed as arguments: strings, numbers (by their decimal
\* text), null, undefined and plain objects given as the sequence of their
\* own properties <<name, string value>> in insertion order.  Strings hold
\* no character that JSON escapes.
Str(s) == [t |-> "string", s |-> s, f |-> <<>>]
Num(s) == [t |-> "number", s |-> s, f |-> <<>>]
JsNull == [t |-> "null", s |-> "", f |-> <<>>]
JsUndefined == [t |-> "undefined", s |-> "", f |-> <<>>]
Obj(f) == [t |-> "object", s |-> "", f |-> f]

ArgLists == {<<>>, <<Str("a")>>}
NoTtl == 0
TtlChoices == {NoTtl, 2}
MaxChoices == {1, 2}

NoInst == [kind |-> "none", pass |-> FALSE, persist |-> FALSE, ttl |-> 0, lruSize |-> 0]
Undefined == -1   \* JavaScript undefined, as a stored or returned value
Null == -2        \* JavaScript null
False == -3       \* JavaScript false
EmptyString == -4 \* the empty string, as a produced value
Falsy == {0, False, EmptyString}

VARIABLES
  enabled,   \* ASTRO_CACHE_ENABLED
  now,       \* Date.now()
  inst,      \* the wrappers returned by swr()/memo(), by options.name
  caches,    \* the registry
  store,     \* in-memory contents of each instance's FlatCache
  disk,      \* saved contents of each instance's cache file
  calls,     \* number of invocations of each instance's producer
  tasks,     \* wrapped calls awaiting their producer
  origin,    \* history: the argument list of each producer invocation
  created,   \* history: the instances made while caching was enabled, in order
  mark,      \* history: -1 once a call has followed the last clear() of n,
             \* before that calls[n] at that clear() if it found no call in
             \* flight, and -2 - calls[n] if it found one
  ev         \* what the last step did and what it returned to its caller

vars == <<enabled, now, inst, caches, store, disk, calls, tasks, origin, created, mark, ev>>

(* ------------------------------ deriveKey ------------------------------ *)
Quote(s) == "\"" \o s \o "\""

RECURSIVE JoinFields(_)
JoinFields(f) ==
  IF Len(f) = 0 THEN ""
  ELSE IF Len(f) = 1 THEN Quote(Head(f)[1]) \o ":" \o Quote(Head(f)[2])
  ELSE Quote(Head(f)[1]) \o ":" \o Quote(Head(f)[2]) \o "," \o JoinFields(Tail(f))

\* JSON.stringify of an array element: null and undefined both give null.
JsonValue(v) ==
  CASE v.t = "string" -> Quote(v.s)
    [] v.t = "number" -> v.s
    [] v.t = "object" -> "{" \o JoinFields(v.f) \o "}"
    [] OTHER -> "null"

RECURSIVE JoinElems(_)
JoinElems(args) ==
  IF Len(args) = 0 THEN ""
  ELSE IF Len(args) = 1 THEN JsonValue(Head(args))
  ELSE JsonValue(Head(args)) \o "," \o JoinElems(Tail(args))

JsonStringify(args) == "[" \o JoinElems(args) \o "]"

\* Mutant: the key ignores the arguments.
deriveKeyConstant(args) == "_"

deriveKey(args) == IF Len(args) = 0 THEN "_" ELSE JsonStringify(args)

(* ------------------------------ flat-cache ----------------------------- *)
\* A store is the sequence of its entries [k, v, at, ttl], least recently
\* used first when the store has an LRU bound.
RECURSIVE IndexOf(_, _)
IndexOf(s, k) ==
  IF Len(s) = 0 THEN 0
  ELSE IF s[Len(s)].k = k THEN Len(s)
  ELSE IndexOf(SubSeq(s, 1, Len(s) - 1), k)

Without(s, i) == SubSeq(s, 1, i - 1) \o SubSeq(s, i + 1, Len(s))

Live(e, t) == t - e.at < e.ttl

FlatGet(s, k, t) ==
  LET i == IndexOf(s, k)
  IN IF i = 0 THEN Undefined
     ELSE IF Live(s[i], t) THEN s[i].v
     ELSE Undefined

\* The store after get(): an entry past its ttl is dropped, a live one
\* becomes the most recently used.
FlatTouch(s, k, t, lruSize) ==
  LET i == IndexOf(s, k)
  IN IF i = 0 THEN s
     ELSE IF ~Live(s[i], t) THEN Without(s, i)
     ELSE IF lruSize = 0 THEN s
     ELSE Append(Without(s, i), s[i])

FlatSet(s, k, v, t, ttl, lruSize) ==
  LET i == IndexOf(s, k)
      e == [k |-> k, v |-> v, at |-> t, ttl |-> ttl]
  IN IF i # 0
       THEN IF lruSize = 0 THEN [s EXCEPT ![i] = e] ELSE Append(Without(s, i), e)
       ELSE IF lruSize > 0 /\ Len(s) >= lruSize
              THEN Append(Tail(s), e)
              ELSE Append(s, e)

FlatClear(s) == <<>>

FlatLoad(d) == d

(* -------------------------------- Init --------------------------------- *)
NoEv == [op |-> "none", inst |-> 0, args |-> <<>>, key |-> "", val |-> 0, invoked |-> FALSE,
         mark |-> -1, log |-> <<>>]

Init ==
  /\ enabled \in BOOLEAN
  /\ now = 0
  /\ inst = [n \in Names |-> NoInst]
  /\ caches = <<>>
  /\ store = [n \in Names |-> <<>>]
  /\ disk = [n \in Names |-> <<>>]
  /\ calls = [n \in Names |-> 0]
  /\ tasks = {}
  /\ origin = [n \in Names |-> <<>>]
  /\ created = <<>>
  /\ mark = [n \in Names |-> -1]
  /\ ev = NoEv

(* ------------------------------- swr() --------------------------------- *)
PassThrough(kind) ==
  [kind |-> kind, pass |-> TRUE, persist |-> FALSE, ttl |-> 0, lruSize |-> 0]

\* Mutant: the wrapper is put at the front of the registry.
CreateSwrUnshift(n, max) ==
  /\ inst[n] = NoInst
  /\ IF ~enabled
       THEN /\ inst' = [inst EXCEPT ![n] = PassThrough("swr")]
            /\ UNCHANGED <<caches, store>>
       ELSE /\ inst' = [inst EXCEPT ![n] = [kind |-> "swr", pass |-> FALSE, persist |-> TRUE,
                                            ttl |-> FLAT_CACHE_TTL,
                                            lruSize |-> IF max = 0 THEN 0 ELSE max * 2]]
            /\ store' = [store EXCEPT ![n] = FlatLoad(disk[n])]
            /\ caches' = <<n>> \o caches
  /\ created' = IF enabled THEN Append(created, n) ELSE created
  /\ ev' = [NoEv EXCEPT !.op = "create", !.inst = n]
  /\ UNCHANGED <<enabled, now, disk, calls, tasks, origin, mark>>

\* Mutant: the store's ttl is minTimeToStale.
CreateSwrShortTtl(n, max) ==
  /\ inst[n] = NoInst
  /\ IF ~enabled
       THEN /\ inst' = [inst EXCEPT ![n] = PassThrough("swr")]
            /\ UNCHANGED <<caches, store>>
       ELSE /\ inst' = [inst EXCEPT ![n] = [kind |-> "swr", pass |-> FALSE, persist |-> TRUE,
                                            ttl |-> MinTimeToStale,
                                            lruSize |-> IF max = 0 THEN 0 ELSE max * 2]]
            /\ store' = [store EXCEPT ![n] = FlatLoad(disk[n])]
            /\ caches' = Append(caches, n)
  /\ created' = IF enabled THEN Append(created, n) ELSE created
  /\ ev' = [NoEv EXCEPT !.op = "create", !.inst = n]
  /\ UNCHANGED <<enabled, now, disk, calls, tasks, origin, mark>>

\* Mutant: the LRU bound of the store is max, not max * 2.
CreateSwrNotDoubled(n, max) ==
  /\ inst[n] = NoInst
  /\ IF ~enabled
       THEN /\ inst' = [inst EXCEPT ![n] = PassThrough("swr")]
            /\ UNCHANGED <<caches, store>>
       ELSE /\ inst' = [inst EXCEPT ![n] = [kind |-> "swr", pass |-> FALSE, persist |-> TRUE,
                                            ttl |-> FLAT_CACHE_TTL, lruSize |-> max]]
            /\ store' = [store EXCEPT ![n] = FlatLoad(disk[n])]
            /\ caches' = Append(caches, n)
  /\ created' = IF enabled THEN Append(created, n) ELSE created
  /\ ev' = [NoEv EXCEPT !.op = "create", !.inst = n]
  /\ UNCHANGED <<enabled, now, disk, calls, tasks, origin, mark>>

CreateSwr(n, max) ==
  /\ inst[n] = NoInst
  /\ IF ~enabled
       THEN /\ inst' = [inst EXCEPT ![n] = PassThrough("swr")]
            /\ UNCHANGED <<caches, store>>
       ELSE /\ inst' = [inst EXCEPT ![n] = [kind |-> "swr", pass |-> FALSE, persist |-> TRUE,
                                            ttl |-> FLAT_CACHE_TTL,
                                            lruSize |-> IF max = 0 THEN 0 ELSE max * 2]]
            /\ store' = [store EXCEPT ![n] = FlatLoad(disk[n])]
            /\ caches' = Append(caches, n)
  /\ created' = IF enabled THEN Append(created, n) ELSE created
  /\ ev' = [NoEv EXCEPT !.op = "create", !.inst = n]
  /\ UNCHANGED <<enabled, now, disk, calls, tasks, origin, mark>>

(* ------------------------------- memo() -------------------------------- *)
\* Mutant: the ASTRO_CACHE_ENABLED test is missing.
CreateMemoAlwaysCaches(n, max, ttl, persist) ==
  /\ inst[n] = NoInst
  /\ inst' = [inst EXCEPT ![n] = [kind |-> "memo", pass |-> FALSE, persist |-> persist,
                                  ttl |-> IF ttl = NoTtl THEN MinTimeToStale ELSE ttl,
                                  lruSize |-> max]]
  /\ store' = [store EXCEPT ![n] = IF persist THEN FlatLoad(disk[n]) ELSE <<>>]
  /\ caches' = Append(caches, n)
  /\ created' = IF enabled THEN Append(created, n) ELSE created
  /\ ev' = [NoEv EXCEPT !.op = "create", !.inst = n, !.val = ttl]
  /\ UNCHANGED <<enabled, now, disk, calls, tasks, origin, mark>>

\* Mutant: without options.ttl the store gets the ttl of the swr stores.
CreateMemoTtlBackstop(n, max, ttl, persist) ==
  /\ inst[n] = NoInst
  /\ IF ~enabled
       THEN /\ inst' = [inst EXCEPT ![n] = PassThrough("memo")]
            /\ UNCHANGED <<caches, store>>
       ELSE /\ inst' = [inst EXCEPT ![n] = [kind |-> "memo", pass |-> FALSE, persist |-> persist,
                                            ttl |-> IF ttl = NoTtl THEN FLAT_CACHE_TTL ELSE ttl,
                                            lruSize |-> max]]
            /\ store' = [store EXCEPT ![n] = IF persist THEN FlatLoad(disk[n]) ELSE <<>>]
            /\ caches' = Append(caches, n)
  /\ created' = IF enabled THEN Append(created, n) ELSE created
  /\ ev' = [NoEv EXCEPT !.op = "create", !.inst = n, !.val = ttl]
  /\ UNCHANGED <<enabled, now, disk, calls, tasks, origin, mark>>

CreateMemo(n, max, ttl, persist) ==
  /\ inst[n] = NoInst
  /\ IF ~enabled
       THEN /\ inst' = [inst EXCEPT ![n] = PassThrough("memo")]
            /\ UNCHANGED <<caches, store>>
       ELSE /\ inst' = [inst EXCEPT ![n] = [kind |-> "memo", pass |-> FALSE, persist |-> persist,
                                            ttl |-> IF ttl = NoTtl THEN MinTimeToStale ELSE ttl,
                                            lruSize |-> max]]
            /\ store' = [store EXCEPT ![n] = IF persist THEN FlatLoad(disk[n]) ELSE <<>>]
            /\ caches' = Append(caches, n)
  /\ created' = IF enabled THEN Append(created, n) ELSE created
  /\ ev' = [NoEv EXCEPT !.op = "create", !.inst = n, !.val = ttl]
  /\ UNCHANGED <<enabled, now, disk, calls, tasks, origin, mark>>

(* ------------------------------- clock --------------------------------- *)
Tick ==
  /\ now < MaxTime
  /\ now' = now + 1
  /\ ev' = NoEv
  /\ UNCHANGED <<enabled, inst, caches, store, disk, calls, tasks, origin, created, mark>>

(* ----------------------- invoking the producer ------------------------- *)
\* fn(...args) is entered: the producer's counter advances and the wrapped
\* call (or the revalidation, bg) waits for the producer's promise.
Invoke(n, args, bg) ==
  /\ calls[n] < MaxCalls
  /\ Cardinality(tasks) < MaxTasks
  /\ calls' = [calls EXCEPT ![n] = calls[n] + 1]
  /\ origin' = [origin EXCEPT ![n] = Append(origin[n], args)]
  /\ tasks' = tasks \cup {[inst |-> n, args |-> args, val |-> calls[n] + 1, bg |-> bg,
                           mark |-> mark[n]]}

CallEv(op, n, args) ==
  [NoEv EXCEPT !.op = op, !.inst = n, !.args = args, !.key = deriveKey(args),
               !.mark = mark[n]]

SettleEv(op, t) ==
  [NoEv EXCEPT !.op = op, !.inst = t.inst, !.args = t.args, !.key = deriveKey(t.args),
               !.val = t.val, !.mark = t.mark]

\* Mutant: the store is saved whatever options.persist says.
SaveAlways(n, s) == s

Save(n, s) == IF inst[n].persist THEN s ELSE disk[n]

(* --------------------------- memo: cached(...) ------------------------- *)
\* Mutant: the early return of a hit is missing, the producer always runs.
MemoCallNoReturn(n, args) ==
  /\ store' = [store EXCEPT ![n] = FlatTouch(store[n], deriveKey(args), now, inst[n].lruSize)]
  /\ Invoke(n, args, FALSE)
  /\ ev' = [CallEv("miss", n, args) EXCEPT !.invoked = TRUE]

\* Mutant: a miss joins an invocation already in flight for the same key.
MemoCallDedup(n, args) ==
  LET key == deriveKey(args)
      existing == FlatGet(store[n], key, now)
      touched == FlatTouch(store[n], key, now, inst[n].lruSize)
  IN /\ store' = [store EXCEPT ![n] = touched]
     /\ IF existing # Undefined
          THEN /\ ev' = [CallEv("hit", n, args) EXCEPT !.val = existing]
               /\ UNCHANGED <<calls, tasks, origin>>
          ELSE IF \E t \in tasks : t.inst = n /\ deriveKey(t.args) = key
            THEN /\ ev' = CallEv("miss", n, args)
                 /\ UNCHANGED <<calls, tasks, origin>>
            ELSE /\ Invoke(n, args, FALSE)
                 /\ ev' = [CallEv("miss", n, args) EXCEPT !.invoked = TRUE]

\* Mutant: a hit is recognised by truthiness, not by `!== undefined`.
MemoCallTruthy(n, args) ==
  LET key == deriveKey(args)
      existing == FlatGet(store[n], key, now)
      touched == FlatTouch(store[n], key, now, inst[n].lruSize)
  IN /\ store' = [store EXCEPT ![n] = touched]
     /\ IF existing \notin Falsy \cup {Undefined, Null}
          THEN /\ ev' = [CallEv("hit", n, args) EXCEPT !.val = existing]
               /\ UNCHANGED <<calls, tasks, origin>>
          ELSE /\ Invoke(n, args, FALSE)
               /\ ev' = [CallEv("miss", n, args) EXCEPT !.invoked = TRUE]

MemoCall(n, args) ==
  LET key == deriveKey(args)
      existing == FlatGet(store[n], key, now)
      touched == FlatTouch(store[n], key, now, inst[n].lruSize)
  IN /\ store' = [store EXCEPT ![n] = touched]
     /\ IF existing # Undefined
          THEN /\ ev' = [CallEv("hit", n, args) EXCEPT !.val = existing]
               /\ UNCHANGED <<calls, tasks, origin>>
          ELSE /\ Invoke(n, args, FALSE)
               /\ ev' = [CallEv("miss", n, args) EXCEPT !.invoked = TRUE]

\* Mutant: a rejected producer leaves an undefined entry behind.
MemoSettleStoresFailure(t, ok) ==
  LET n == t.inst
      s == FlatSet(store[n], deriveKey(t.args), IF ok THEN t.val ELSE Undefined, now,
                   inst[n].ttl, inst[n].lruSize)
  IN /\ store' = [store EXCEPT ![n] = s]
     /\ disk' = [disk EXCEPT ![n] = Save(n, s)]
     /\ ev' = IF ok THEN SettleEv("return", t) ELSE [SettleEv("throw", t) EXCEPT !.val = 0]

\* Mutant: the new value is set but the store is not saved.
MemoSettleNoSave(t, ok) ==
  LET n == t.inst IN
  IF ok
    THEN /\ store' = [store EXCEPT ![n] = FlatSet(store[n], deriveKey(t.args), t.val, now,
                                                 inst[n].ttl, inst[n].lruSize)]
         /\ ev' = SettleEv("return", t)
         /\ UNCHANGED disk
    ELSE /\ ev' = [SettleEv("throw", t) EXCEPT !.val = 0]
         /\ UNCHANGED <<store, disk>>

MemoSettle(t, ok) ==
  LET n == t.inst IN
  IF ok
    THEN LET s == FlatSet(store[n], deriveKey(t.args), t.val, now, inst[n].ttl,
                          inst[n].lruSize)
         IN /\ store' = [store EXCEPT ![n] = s]
            /\ disk' = [disk EXCEPT ![n] = Save(n, s)]
            /\ ev' = SettleEv("return", t)
    ELSE /\ ev' = [SettleEv("throw", t) EXCEPT !.val = 0]
         /\ UNCHANGED <<store, disk>>

(* ------------------------ swr: storage adapter ------------------------- *)
\* Mutant: the nullish test is inverted, a held value reads as null.
StorageGetItemInverted(s, key, t) ==
  IF FlatGet(s, key, t) = Undefined THEN FlatGet(s, key, t) ELSE Null

StorageGetItem(s, key, t) ==
  IF FlatGet(s, key, t) = Undefined THEN Null ELSE FlatGet(s, key, t)

\* Mutant: setItem leaves a key that is already held as it is.
StorageSetItemIfAbsent(s, key, value, t, n) ==
  IF IndexOf(s, key) # 0 THEN s
  ELSE FlatSet(s, key, value, t, inst[n].ttl, inst[n].lruSize)

\* Mutant: setItem saves without setting.
StorageSetItemNoSet(s, key, value, t, n) == s

StorageSetItem(s, key, value, t, n) ==
  FlatSet(s, key, value, t, inst[n].ttl, inst[n].lruSize)

(* --------------------- stale-while-revalidate-cache -------------------- *)
TimeKey(key) == key \o "__swr_time__"

SwrStatus(cachedValue, cachedAt, t) ==
  IF cachedValue = Null \/ cachedAt = Null THEN "absent"
  ELSE IF t - cachedAt >= MaxTimeToLive THEN "expired"
  ELSE IF t - cachedAt >= MinTimeToStale THEN "stale"
  ELSE "fresh"

SwrPersist(s, key, value, t, n) ==
  StorageSetItem(StorageSetItem(s, key, value, t, n), TimeKey(key), t, t, n)

\* Mutant: a rejected revalidation rejects like a blocking fetch.
SwrOutcomeSurfaces(bg, ok) ==
  IF ok THEN (IF bg THEN "revalidated" ELSE "return") ELSE "throw"

\* How a producer's promise ends for the caller: a blocking fetch returns or
\* rejects, a background revalidation does neither.
SwrOutcome(bg, ok) ==
  IF ok THEN (IF bg THEN "revalidated" ELSE "return")
  ELSE (IF bg THEN "swallowed" ELSE "throw")

\* swrCache(key, fn): both items are read through the storage adapter, the
\* age of the timestamp decides what the call does.
SwrCache(n, args, key) ==
  LET cachedValue == StorageGetItem(store[n], key, now)
      s1 == FlatTouch(store[n], key, now, inst[n].lruSize)
      cachedAt == StorageGetItem(s1, TimeKey(key), now)
      s2 == FlatTouch(s1, TimeKey(key), now, inst[n].lruSize)
      status == SwrStatus(cachedValue, cachedAt, now)
  IN /\ store' = [store EXCEPT ![n] = s2]
     /\ CASE status = "fresh" ->
              /\ ev' = [CallEv("fresh", n, args) EXCEPT !.val = cachedValue]
              /\ UNCHANGED <<calls, tasks, origin>>
          [] status = "stale" ->
              /\ Invoke(n, args, TRUE)
              /\ ev' = [CallEv("stale", n, args) EXCEPT !.val = cachedValue, !.invoked = TRUE]
          [] OTHER ->
              /\ Invoke(n, args, FALSE)
              /\ ev' = [CallEv("miss", n, args) EXCEPT !.invoked = TRUE]

\* The producer started by swrCache(key, fn) settles.
SwrCacheSettle(t, key, ok) ==
  LET n == t.inst IN
  /\ ev' = [SettleEv(SwrOutcome(t.bg, ok), t) EXCEPT !.val = IF ok THEN t.val ELSE 0]
  /\ IF ok
       THEN LET s == SwrPersist(store[n], key, t.val, now, n)
            IN /\ store' = [store EXCEPT ![n] = s]
               /\ disk' = [disk EXCEPT ![n] = Save(n, s)]
       ELSE UNCHANGED <<store, disk>>

(* ---------------------------- swr: cached(...) ------------------------- *)
SwrCall(n, args) == SwrCache(n, args, deriveKey(args))

SwrSettle(t, ok) == SwrCacheSettle(t, deriveKey(t.args), ok)

(* ----------------------- caching disabled: fn(...) --------------------- *)
PassCall(n, args) ==
  /\ Invoke(n, args, FALSE)
  /\ ev' = [CallEv("miss", n, args) EXCEPT !.invoked = TRUE]
  /\ UNCHANGED store

PassSettle(t, ok) ==
  /\ ev' = [SettleEv(IF ok THEN "return" ELSE "throw", t) EXCEPT !.val = IF ok THEN t.val ELSE 0]
  /\ UNCHANGED <<store, disk>>

(* ------------------------- the wrapped function ------------------------ *)
Call(n, args) ==
  /\ inst[n] # NoInst
  /\ IF inst[n].pass THEN PassCall(n, args)
     ELSE IF inst[n].kind = "memo" THEN MemoCall(n, args)
     ELSE SwrCall(n, args)
  /\ mark' = [mark EXCEPT ![n] = -1]
  /\ UNCHANGED <<enabled, now, inst, caches, disk, created>>

\* The promise of the producer invocation t settles, resolved (ok) or
\* rejected; r is t with the value the producer resolves to.
SettleAs(t, r, ok) ==
  /\ t \in tasks
  /\ tasks' = tasks \ {t}
  /\ IF inst[t.inst].pass THEN PassSettle(r, ok)
     ELSE IF inst[t.inst].kind = "memo" THEN MemoSettle(r, ok)
     ELSE SwrSettle(r, ok)
  /\ UNCHANGED <<enabled, now, inst, caches, calls, origin, created, mark>>

\* The counting producer: the invocation resolves to its own number.
Settle(t, ok) == SettleAs(t, t, ok)

\* A producer whose result is 0, false or "".
SettleFalsy(t, v) == SettleAs(t, [t EXCEPT !.val = v], TRUE)

(* ------------------------------- clear() ------------------------------- *)
\* The effect of cached.clear() on the stores: flatCache.clear() and then,
\* for a persisted store, flatCache.save().  outcome says how the call
\* ends: "ok", or with an exception raised by flatCache.clear() ("clear")
\* or by flatCache.save() ("save").  acc is [store, disk, mark, log, failed].
Quiescent(n) == \A t \in tasks : t.inst # n

\* Mutant: clear() saves the store without emptying it.
InstClearKeeps(n, acc, outcome) ==
  IF inst[n].pass THEN [acc EXCEPT !.log = Append(acc.log, n)]
  ELSE [acc EXCEPT !.disk[n] = Save(n, acc.store[n]),
                   !.mark[n] = IF Quiescent(n) THEN calls[n] ELSE -2 - calls[n],
                   !.log = Append(acc.log, n)]

InstClear(n, acc, outcome) ==
  IF inst[n].pass THEN [acc EXCEPT !.log = Append(acc.log, n)]
  ELSE IF outcome = "clear" THEN [acc EXCEPT !.log = Append(acc.log, n), !.failed = n]
  ELSE IF outcome = "save"
    THEN [acc EXCEPT !.store[n] = FlatClear(acc.store[n]),
                     !.log = Append(acc.log, n), !.failed = n]
  ELSE [acc EXCEPT !.store[n] = FlatClear(acc.store[n]),
                   !.disk[n] = Save(n, FlatClear(acc.store[n])),
                   !.mark[n] = IF Quiescent(n) THEN calls[n] ELSE -2 - calls[n],
                   !.log = Append(acc.log, n)]

Acc0 == [store |-> store, disk |-> disk, mark |-> mark, log |-> <<>>, failed |-> 0]

AllOk == [n \in Names |-> "ok"]

ClearWith(n, outcome) ==
  /\ inst[n] # NoInst
  /\ LET r == InstClear(n, Acc0, outcome)
     IN /\ store' = r.store
        /\ disk' = r.disk
        /\ mark' = r.mark
        /\ ev' = [NoEv EXCEPT !.op = IF r.failed # 0 THEN "clearThrow" ELSE "clear",
                              !.inst = n, !.log = r.log]
  /\ UNCHANGED <<enabled, now, inst, caches, calls, tasks, origin, created>>

Clear(n) == ClearWith(n, "ok")

(* --------------------------- clearAllCaches() -------------------------- *)
\* Mutant: the loop stops one instance short.
RECURSIVE ClearLoopShort(_, _, _)
ClearLoopShort(reg, acc, outcomes) ==
  IF Len(reg) <= 1 THEN acc
  ELSE LET r == InstClear(Head(reg), acc, outcomes[Head(reg)])
       IN IF r.failed # 0 THEN r ELSE ClearLoopShort(Tail(reg), r, outcomes)

\* for (const cache of caches) cache.clear(): an exception leaves the loop.
RECURSIVE ClearLoop(_, _, _)
ClearLoop(reg, acc, outcomes) ==
  IF Len(reg) = 0 THEN acc
  ELSE LET r == InstClear(Head(reg), acc, outcomes[Head(reg)])
       IN IF r.failed # 0 THEN r ELSE ClearLoop(Tail(reg), r, outcomes)

ClearAllWith(outcomes) ==
  /\ LET r == ClearLoop(caches, Acc0, outcomes)
     IN /\ store' = r.store
        /\ disk' = r.disk
        /\ mark' = r.mark
        /\ ev' = [NoEv EXCEPT !.op = IF r.failed # 0 THEN "clearAllThrow" ELSE "clearAll",
                              !.inst = r.failed, !.log = r.log]
  /\ UNCHANGED <<enabled, now, inst, caches, calls, tasks, origin, created>>

clearAllCaches == ClearAllWith(AllOk)

(* ---------------------------- specifications --------------------------- *)
\* Spec: one cache instance with every option, several argument lists and
\* the clock.
Main == CHOOSE n \in Names : TRUE

Next ==
  \/ CreateSwr(Main, 0)
  \/ \E ttl \in TtlChoices, persist \in BOOLEAN : CreateMemo(Main, 0, ttl, persist)
  \/ Tick
  \/ \E args \in ArgLists : Call(Main, args)
  \/ \E t \in tasks, ok \in BOOLEAN : Settle(t, ok)
  \/ Clear(Main)
  \/ clearAllCaches

Spec == Init /\ [][Next]_vars

\* SpecReg: several instances and the registry, zero-argument calls made
\* one at a time, the clock stopped.
NextReg ==
  \/ \E n \in Names : CreateSwr(n, 0)
  \/ \E n \in Names : CreateMemo(n, 0, NoTtl, TRUE)
  \/ \E n \in Names : calls[n] < RegCalls /\ tasks = {} /\ Call(n, <<>>)
  \/ \E t \in tasks : Settle(t, TRUE)
  \/ \E n \in Names : Clear(n)
  \/ clearAllCaches

SpecReg == Init /\ [][NextReg]_vars

\* SpecFail: SpecReg in an environment where flat-cache's clear() or save()
\* may raise an exception.
NextFail ==
  \/ NextReg
  \/ \E n \in Names, outcome \in {"clear", "save"} : ClearWith(n, outcome)
  \/ \E n \in Names, outcome \in {"clear", "save"} :
       ClearAllWith([AllOk EXCEPT ![n] = outcome])

SpecFail == Init /\ [][NextFail]_vars

\* SpecMemo: the behaviours of Spec whose instance is made by memo().
NextMemo ==
  \/ \E ttl \in TtlChoices, persist \in BOOLEAN : CreateMemo(Main, 0, ttl, persist)
  \/ Tick
  \/ \E args \in ArgLists : Call(Main, args)
  \/ \E t \in tasks, ok \in BOOLEAN : Settle(t, ok)
  \/ Clear(Main)

SpecMemo == Init /\ [][NextMemo]_vars

\* SpecFalsy: one memo instance whose producer resolves to 0, false or "".
NextFalsy ==
  \/ \E ttl \in TtlChoices, persist \in BOOLEAN : CreateMemo(Main, 0, ttl, persist)
  \/ Tick
  \/ \E args \in ArgLists : Call(Main, args)
  \/ \E t \in tasks, v \in Falsy : SettleFalsy(t, v)
  \/ Clear(Main)

SpecFalsy == Init /\ [][NextFalsy]_vars

\* SpecLru: one swr instance with an entry limit, several argument lists and
\* the clock; every producer invocation resolves and nothing is cleared.
NextLru ==
  \/ \E max \in MaxChoices : CreateSwr(Main, max)
  \/ Tick
  \/ \E args \in ArgLists : Call(Main, args)
  \/ \E t \in tasks : Settle(t, TRUE)

SpecLru == Init /\ [][NextLru]_vars

\* SpecCrash: one instance and zero-argument calls in a process that may
\* crash and be started again.  A crash loses everything but the
\* configuration, the clock and the cache files; the new process makes its
\* wrappers again, which load the files.
Restart ==
  /\ \E n \in Names : inst[n] # NoInst
  /\ inst' = [n \in Names |-> NoInst]
  /\ caches' = <<>>
  /\ store' = [n \in Names |-> <<>>]
  /\ calls' = [n \in Names |-> 0]
  /\ tasks' = {}
  /\ origin' = [n \in Names |-> <<>>]
  /\ created' = <<>>
  /\ mark' = [n \in Names |-> -1]
  /\ ev' = [NoEv EXCEPT !.op = "restart"]
  /\ UNCHANGED <<enabled, now, disk>>

NextCrash ==
  \/ CreateSwr(Main, 0)
  \/ \E ttl \in TtlChoices, persist \in BOOLEAN : CreateMemo(Main, 0, ttl, persist)
  \/ Tick
  \/ calls[Main] < RegCalls /\ Call(Main, <<>>)
  \/ \E t \in tasks : Settle(t, TRUE)
  \/ Clear(Main)
  \/ Restart

SpecCrash == Init /\ [][NextCrash]_vars

\* SpecPair: two memo instances over the same producer, Main with
\* persist: true and Twin with persist: false, driven in lockstep: every
\* operation on Main is repeated on Twin before anything else happens.  A
\* cache file left by an earlier run exists under Twin's name.
Twin == CHOOSE n \in Names : n # Main

LeftOver == <<[k |-> "_", v |-> 1, at |-> 0, ttl |-> MaxTime + 2]>>

InitPair ==
  /\ enabled \in BOOLEAN
  /\ now = 0
  /\ inst = [n \in Names |-> NoInst]
  /\ caches = <<>>
  /\ store = [n \in Names |-> <<>>]
  /\ disk = [n \in Names |-> IF n = Twin THEN LeftOver ELSE <<>>]
  /\ calls = [n \in Names |-> 0]
  /\ tasks = {}
  /\ origin = [n \in Names |-> <<>>]
  /\ created = <<>>
  /\ mark = [n \in Names |-> -1]
  /\ ev = NoEv

Pending(n, T) == {<<t.args, t.val>> : t \in {x \in T : x.inst = n}}

Mirror ==
  CASE ev.op = "create" -> CreateMemo(Twin, 0, ev.val, FALSE)
    [] ev.op \in {"hit", "miss"} -> Call(Twin, ev.args)
    [] ev.op \in {"return", "throw"} ->
         \E t \in tasks : /\ t.inst = Twin
                          /\ Settle(t, ev.op = "return")
                          /\ Pending(Twin, tasks') = Pending(Main, tasks)
    [] ev.op = "clear" -> Clear(Twin)
    [] OTHER -> FALSE

NextPair ==
  \/ ev.inst # Main /\ \E ttl \in TtlChoices : CreateMemo(Main, 0, ttl, TRUE)
  \/ ev.inst # Main /\ Tick
  \/ ev.inst # Main /\ \E args \in ArgLists : Call(Main, args)
  \/ ev.inst # Main /\ \E t \in tasks, ok \in BOOLEAN : t.inst = Main /\ Settle(t, ok)
  \/ ev.inst # Main /\ Clear(Main)
  \/ ev.inst # Main /\ inst[Twin] # NoInst /\ clearAllCaches
  \/ ev.inst = Main /\ Mirror

SpecPair == InitPair /\ [][NextPair]_vars

\* SpecKeys: deriveKey alone, applied to two argument lists.  The lists are
\* kept in origin[Main], the two keys are reported in ev.log.
KeyArgLists ==
  {<<>>, <<Str("a")>>, <<Str("_")>>, <<Str("null")>>, <<Str("1")>>, <<Num("1")>>,
   <<JsNull>>, <<JsUndefined>>, <<Str("a"), Num("1")>>, <<Str("a"), Num("2")>>,
   <<Obj(<<<<"p", "x">>, <<"q", "y">>>>)>>, <<Obj(<<<<"q", "y">>, <<"p", "x">>>>)>>}

InitKeys ==
  /\ enabled = TRUE
  /\ now = 0
  /\ inst = [n \in Names |-> NoInst]
  /\ caches = <<>>
  /\ store = [n \in Names |-> <<>>]
  /\ disk = [n \in Names |-> <<>>]
  /\ calls = [n \in Names |-> 0]
  /\ tasks = {}
  /\ \E a \in KeyArgLists, b \in KeyArgLists :
       origin = [n \in Names |-> IF n = Main THEN <<a, b>> ELSE <<>>]
  /\ created = <<>>
  /\ mark = [n \in Names |-> -1]
  /\ ev = NoEv

DeriveKeys ==
  /\ ev.op = "none"
  /\ ev' = [NoEv EXCEPT !.op = "deriveKey",
                        !.log = <<deriveKey(origin[Main][1]), deriveKey(origin[Main][2])>>]
  /\ UNCHANGED <<enabled, now, inst, caches, store, disk, calls, tasks, origin, created, mark>>

NextKeys == DeriveKeys

SpecKeys == InitKeys /\ [][NextKeys]_vars

(* ------------------------------ properties ----------------------------- *)
HasEntry(s, k) == IndexOf(s, k) # 0
EntryOf(s, k) == s[IndexOf(s, k)]
IsMemo(n) == inst[n].kind = "memo" /\ ~inst[n].pass
IsSwr(n) == inst[n].kind = "swr" /\ ~inst[n].pass

\* C1: a call to an enabled memo wrapper whose store holds, for the derived
\* key of its argument list, an entry younger than the ttl is a hit: it
\* returns the stored value and the producer is not invoked.
C1_MemoHit ==
  [][\A n \in Names :
       (/\ IsMemo(n)
        /\ ev'.inst = n
        /\ ev'.op \in {"hit", "miss"}
        /\ HasEntry(store[n], ev'.key)
        /\ now - EntryOf(store[n], ev'.key).at < inst[n].ttl)
       => (/\ ev'.op = "hit"
           /\ ev'.val = EntryOf(store[n], ev'.key).v
           /\ calls' = calls
           /\ tasks' = tasks)]_vars

\* The second of two zero-argument calls returned the first call's value and
\* the producer ran once.
C1_Witness ==
  /\ ev.op = "hit"
  /\ IsMemo(ev.inst)
  /\ ev.args = <<>>
  /\ ev.val = 1
  /\ calls[ev.inst] = 1

\* C2: the first call after a clear() (of the instance or through
\* clearAllCaches) that followed a completed call is never served from the
\* store, and what it returns is the value of the producer invocation it
\* made itself, the next version after those made before the clear.
C2_ClearForcesRefetch ==
  /\ ev.op \in {"hit", "fresh", "stale"} => ev.mark < 1
  /\ (ev.op = "return" /\ ev.mark >= 1) => ev.val = ev.mark + 1

C2_Witness ==
  /\ ev.op = "return"
  /\ IsSwr(ev.inst)
  /\ ev.mark = 1
  /\ ev.val = 2

\* An swr store holds a key when it holds both its value and its timestamp.
SwrHeld(n, key) == HasEntry(store[n], key) /\ HasEntry(store[n], TimeKey(key))
SwrAge(n, key) == now - EntryOf(store[n], TimeKey(key)).v
CallOps == {"hit", "fresh", "stale", "miss"}
IsSwrCall(n) == IsSwr(n) /\ ev'.inst = n /\ ev'.op \in CallOps
Started == tasks' \ tasks
Settled == tasks \ tasks'
KeyKept(n, key) ==
  /\ HasEntry(store'[n], key)
  /\ EntryOf(store'[n], key).v = EntryOf(store[n], key).v
  /\ HasEntry(store'[n], TimeKey(key))
  /\ EntryOf(store'[n], TimeKey(key)).v = EntryOf(store[n], TimeKey(key)).v

\* C3: an swr call for a key whose stored timestamp is less than
\* minTimeToStale old returns the stored value, invokes no producer (neither
\* awaited nor in the background) and leaves value and timestamp as they are.
C3_SwrFresh ==
  [][\A n \in Names :
       (/\ IsSwrCall(n)
        /\ SwrHeld(n, ev'.key)
        /\ SwrAge(n, ev'.key) < MinTimeToStale)
       => (/\ ev'.op = "fresh"
           /\ ev'.val = EntryOf(store[n], ev'.key).v
           /\ calls' = calls
           /\ tasks' = tasks
           /\ KeyKept(n, ev'.key))]_vars

C3_Witness ==
  /\ ev.op = "fresh"
  /\ IsSwr(ev.inst)
  /\ ev.val = 1
  /\ calls[ev.inst] = 1
  /\ now - EntryOf(store[ev.inst], TimeKey(ev.key)).v < MinTimeToStale

\* C4: an swr call for a key whose age is in [minTimeToStale, maxTimeToLive)
\* returns the stored value at once, leaves the store as it is and starts
\* exactly one producer invocation in the background; when that invocation
\* resolves, its result and the current time replace the stored value and
\* timestamp.
C4_SwrStale ==
  [][\A n \in Names :
       /\ (/\ IsSwrCall(n)
           /\ SwrHeld(n, ev'.key)
           /\ SwrAge(n, ev'.key) >= MinTimeToStale
           /\ SwrAge(n, ev'.key) < MaxTimeToLive)
          => (/\ ev'.op = "stale"
              /\ ev'.val = EntryOf(store[n], ev'.key).v
              /\ calls'[n] = calls[n] + 1
              /\ Cardinality(Started) = 1
              /\ \A t \in Started : t.bg /\ t.inst = n /\ t.args = ev'.args
              /\ KeyKept(n, ev'.key))
       /\ (IsSwr(n) /\ ev'.inst = n /\ ev'.op = "revalidated")
          => (/\ \E t \in Settled : t.bg /\ t.val = ev'.val /\ t.args = ev'.args
              /\ HasEntry(store'[n], ev'.key)
              /\ EntryOf(store'[n], ev'.key).v = ev'.val
              /\ HasEntry(store'[n], TimeKey(ev'.key))
              /\ EntryOf(store'[n], TimeKey(ev'.key)).v = now)]_vars

\* A background revalidation has replaced version 1 by version 2.
C4_Witness ==
  /\ ev.op = "revalidated"
  /\ IsSwr(ev.inst)
  /\ ev.val = 2
  /\ EntryOf(store[ev.inst], ev.key).v = 2
  /\ EntryOf(store[ev.inst], TimeKey(ev.key)).v = now
  /\ now >= MinTimeToStale

\* C5: an swr call for a key that is not held, or whose age is at least
\* maxTimeToLive, returns nothing at call time: it invokes the producer and
\* waits; when the producer resolves, the call stores the result with the
\* current time and returns that result, which is not the value held before.
C5_SwrBlocking ==
  [][\A n \in Names :
       /\ (/\ IsSwrCall(n)
           /\ (~SwrHeld(n, ev'.key) \/ SwrAge(n, ev'.key) >= MaxTimeToLive))
          => (/\ ev'.op = "miss"
              /\ calls'[n] = calls[n] + 1
              /\ Cardinality(Started) = 1
              /\ \A t \in Started : ~t.bg /\ t.inst = n /\ t.args = ev'.args
                                    /\ t.val = calls'[n])
       /\ (IsSwr(n) /\ ev'.inst = n /\ ev'.op = "return")
          => (/\ \E t \in Settled : ~t.bg /\ t.val = ev'.val /\ t.args = ev'.args
              /\ HasEntry(store'[n], ev'.key)
              /\ EntryOf(store'[n], ev'.key).v = ev'.val
              /\ HasEntry(store'[n], TimeKey(ev'.key))
              /\ EntryOf(store'[n], TimeKey(ev'.key)).v = now
              /\ HasEntry(store[n], ev'.key) => EntryOf(store[n], ev'.key).v # ev'.val)]_vars

\* A call has just found its key expired and is waiting for the producer.
C5_Witness ==
  /\ ev.op = "miss"
  /\ IsSwr(ev.inst)
  /\ SwrHeld(ev.inst, ev.key)
  /\ SwrAge(ev.inst, ev.key) >= MaxTimeToLive
  /\ \E t \in tasks : ~t.bg /\ t.args = ev.args /\ t.val = 2

\* C6: when the producer of a background revalidation rejects, nothing is
\* thrown to any caller and store and cache file stay as they are; an error
\* reaches a caller only from the producer invocation that caller awaits.
C6_RevalidationFailure ==
  [][/\ \A t \in tasks :
          (t.bg /\ tasks' = tasks \ {t} /\ ev'.op # "revalidated")
          => (ev'.op = "swallowed" /\ store' = store /\ disk' = disk)
     /\ ev'.op = "throw"
          => \E t \in Settled : ~t.bg /\ t.inst = ev'.inst /\ t.args = ev'.args]_vars

\* A revalidation of version 1 has failed and version 1 is still held.
C6_Witness ==
  /\ ev.op = "swallowed"
  /\ IsSwr(ev.inst)
  /\ SwrHeld(ev.inst, ev.key)
  /\ EntryOf(store[ev.inst], ev.key).v = 1
  /\ calls[ev.inst] = 2

\* C7: with caching disabled nothing is registered or stored, every call to
\* a wrapper invokes the producer once and returns what that invocation
\* resolved to, and clear() and clearAllCaches() throw nothing and change
\* nothing.
C7_DisabledPassThrough ==
  [][~enabled =>
       /\ caches' = <<>>
       /\ \A n \in Names : store'[n] = <<>> /\ disk'[n] = <<>>
       /\ \A n \in Names :
            (ev'.inst = n /\ ev'.op \in CallOps)
            => (/\ ev'.op = "miss"
                /\ calls'[n] = calls[n] + 1
                /\ \A t \in Started : t.inst = n /\ t.args = ev'.args /\ t.val = calls'[n])
       /\ ev'.op = "return"
            => \E t \in Settled : t.inst = ev'.inst /\ t.args = ev'.args /\ t.val = ev'.val
       /\ ev'.op \notin {"clearThrow", "clearAllThrow", "fresh", "stale", "hit"}
       /\ ev'.op \in {"clear", "clearAll"}
            => UNCHANGED <<inst, caches, store, disk, calls, tasks>>]_vars

\* The second call of a pass-through wrapper has returned version 2.
C7_Witness ==
  /\ ~enabled
  /\ ev.op = "return"
  /\ ev.args = <<Str("a")>>
  /\ ev.val = 2
  /\ origin[ev.inst] = <<<<Str("a")>>, <<Str("a")>>>>

\* C8: in an enabled instance the value a call returns was produced by an
\* invocation with that call's argument list; a call for a key the store
\* does not hold invokes the producer whatever other keys are held; and a
\* call or a settling producer leaves the entries of all other keys alone.
Own(key) == {key, TimeKey(key)}

C9_ClearAllInOrder ==
  ev.op = "clearAll" =>
    /\ ev.log = created
    /\ \A i \in 1..Len(created) : store[created[i]] = <<>> /\ disk[created[i]] = <<>>

\* Two instances, registered in the order 2, 1 and each holding one value,
\* have been cleared by one clearAllCaches().
C9_Witness ==
  /\ ev.op = "clearAll"
  /\ created = <<2, 1>>
  /\ mark[1] = 1
  /\ mark[2] = 1

\* C10: after a clearAllCaches() in which the clear() of instance n threw,
\* every registered instance other than n has been cleared: its store is
\* empty.
C10_ClearAllIsolatesFailure ==
  \A n \in Names :
    (ev.op \in {"clearAll", "clearAllThrow"} /\ ev.inst = n)
    => \A i \in 1..Len(caches) : caches[i] # n => store[caches[i]] = <<>>

\* C11: a call to an enabled memo wrapper whose store holds for its key,
\* younger than the ttl, the value 0, false or "" is a hit: it returns that
\* stored value and the producer is not invoked.
C11_FalsyHit ==
  [][\A n \in Names :
       (/\ IsMemo(n)
        /\ ev'.inst = n
        /\ ev'.op \in CallOps
        /\ HasEntry(store[n], ev'.key)
        /\ EntryOf(store[n], ev'.key).v \in Falsy
        /\ now - EntryOf(store[n], ev'.key).at < inst[n].ttl)
       => (/\ ev'.op = "hit"
           /\ ev'.val = EntryOf(store[n], ev'.key).v
           /\ ev'.val \in Falsy
           /\ calls' = calls
           /\ tasks' = tasks)]_vars

\* A stored false has been returned by the second call; the producer ran once.
C11_Witness ==
  /\ ev.op = "hit"
  /\ IsMemo(ev.inst)
  /\ ev.val = False
  /\ calls[ev.inst] = 1
  /\ HasEntry(store[ev.inst], ev.key)
  /\ EntryOf(store[ev.inst], ev.key).v = False

\* C12: when the producer awaited by a memo miss or by an swr call that
\* found its key absent or expired rejects, that call throws to its caller,
\* and the call has changed nothing: the step that fails writes neither
\* store nor cache file, and the lookup that opened the call dropped at most
\* entries already past their physical ttl, for that key and all others.
C12_ProducerFailure ==
  [][\A n \in Names :
       (~inst[n].pass /\ ev'.inst = n) =>
         /\ \A t \in Settled :
              (~t.bg /\ ev'.op # "return")
              => (/\ ev'.op = "throw"
                  /\ ev'.args = t.args
                  /\ store' = store
                  /\ disk' = disk)
         /\ ev'.op = "miss"
              => (/\ \A i \in 1..Len(store[n]) :
                       Live(store[n][i], now)
                       => \E j \in 1..Len(store'[n]) : store'[n][j] = store[n][i]
                  /\ \A j \in 1..Len(store'[n]) :
                       \E i \in 1..Len(store[n]) : store[n][i] = store'[n][j]
                  /\ disk' = disk)]_vars

\* An swr call that found its key expired has failed; the expired value of
\* the first invocation is still held.
C12_Witness ==
  /\ ev.op = "throw"
  /\ IsSwr(ev.inst)
  /\ SwrHeld(ev.inst, ev.key)
  /\ SwrAge(ev.inst, ev.key) >= MaxTimeToLive
  /\ EntryOf(store[ev.inst], ev.key).v = 1
  /\ calls[ev.inst] = 2

\* C13: a memo made with persist: false, given the operations of a memo made
\* with persist: true (the same calls at the same times, the same producer
\* outcomes, the same clears), serves each call the same way: hit or miss
\* alike, the same value returned, the same producer invocations.  It never
\* reads the cache file (it starts empty although a file exists), never
\* writes it, and throws nothing of its own.
C13_PersistFalseEquivalent ==
  [][/\ (ev.inst = Main /\ ev'.inst = Twin)
          => (/\ ev'.op = ev.op
              /\ ev'.args = ev.args
              /\ ev'.val = ev.val
              /\ ev'.invoked = ev.invoked
              /\ calls'[Twin] = calls'[Main]
              /\ origin'[Twin] = origin'[Main]
              /\ Pending(Twin, tasks') = Pending(Main, tasks'))
     /\ disk'[Twin] = disk[Twin]
     /\ (ev'.inst = Twin /\ ev'.op = "create") => store'[Twin] = <<>>
     /\ ev'.op \notin {"clearThrow", "clearAllThrow"}]_vars

\* Both memos have served the second call from their stores; only Main's
\* cache file was written.
C13_Witness ==
  /\ ev.op = "hit"
  /\ ev.inst = Twin
  /\ IsMemo(Twin) /\ ~inst[Twin].persist
  /\ IsMemo(Main) /\ inst[Main].persist
  /\ ev.val = 1
  /\ ev.args = <<Str("a")>>
  /\ calls[Main] = 1 /\ calls[Twin] = 1
  /\ disk[Main] # <<>>
  /\ disk[Twin] = LeftOver

\* Structural equality of two argument lists: element by element; two
\* objects are equal when they have the same properties with the same
\* values, in whatever order.
DeepEqual(x, y) ==
  IF x.t = "object" /\ y.t = "object"
    THEN {x.f[i] : i \in 1..Len(x.f)} = {y.f[i] : i \in 1..Len(y.f)}
    ELSE x = y

DeepEqualLists(a, b) ==
  /\ Len(a) = Len(b)
  /\ \A i \in 1..Len(a) : DeepEqual(a[i], b[i])

\* C14: two argument lists derive the same key exactly when they are
\* deep-equal, and the key "_" is derived by the empty list only.
C14_KeyInjective ==
  ev.op = "deriveKey" =>
    /\ (ev.log[1] = ev.log[2]) <=> DeepEqualLists(origin[Main][1], origin[Main][2])
    /\ (ev.log[1] = "_") <=> (origin[Main][1] = <<>>)

\* C15: a memo store gets the ttl of options.ttl, or minTimeToStale when
\* none is given.  A call for a key the store holds is a hit returning the
\* stored value while the entry's age is below that ttl; at or past it the
\* call is a miss that invokes the producer and waits, and when the producer
\* resolves the call stores the new result under the same ttl and returns it.
C15_MemoTtl ==
  [][\A n \in Names :
       /\ (ev'.op = "create" /\ ev'.inst = n /\ inst'[n].kind = "memo" /\ ~inst'[n].pass)
            => inst'[n].ttl = (IF ev'.val = NoTtl THEN MinTimeToStale ELSE ev'.val)
       /\ (IsMemo(n) /\ ev'.inst = n /\ ev'.op \in CallOps /\ HasEntry(store[n], ev'.key))
            => IF now - EntryOf(store[n], ev'.key).at < inst[n].ttl
                 THEN ev'.op = "hit" /\ ev'.val = EntryOf(store[n], ev'.key).v
                 ELSE /\ ev'.op = "miss"
                      /\ calls'[n] = calls[n] + 1
                      /\ Cardinality(Started) = 1
                      /\ \A t \in Started : ~t.bg /\ t.inst = n /\ t.args = ev'.args
                                            /\ t.val = calls'[n]
       /\ (IsMemo(n) /\ ev'.inst = n /\ ev'.op = "return")
            => (/\ \E t \in Settled : t.val = ev'.val /\ t.args = ev'.args
                /\ HasEntry(store'[n], ev'.key)
                /\ EntryOf(store'[n], ev'.key).v = ev'.val
                /\ EntryOf(store'[n], ev'.key).at = now
                /\ EntryOf(store'[n], ev'.key).ttl = inst[n].ttl)]_vars

\* A memo without options.ttl has found the value of its first invocation,
\* which the cache file still holds, minTimeToStale old and is waiting for
\* its second invocation.
C15_Witness ==
  /\ ev.op = "miss"
  /\ IsMemo(ev.inst)
  /\ inst[ev.inst].persist
  /\ inst[ev.inst].ttl = MinTimeToStale
  /\ HasEntry(disk[ev.inst], ev.key)
  /\ EntryOf(disk[ev.inst], ev.key).v = 1
  /\ now - EntryOf(disk[ev.inst], ev.key).at = MinTimeToStale
  /\ \E t \in tasks : t.val = 2 /\ t.args = ev.args

\* The entries of a store that get() can still return at time t.
RECURSIVE LiveEntries(_, _)
LiveEntries(s, t) ==
  IF Len(s) = 0 THEN <<>>
  ELSE IF Live(Head(s), t) THEN <<Head(s)>> \o LiveEntries(Tail(s), t)
  ELSE LiveEntries(Tail(s), t)

Persisted(n) == inst[n] # NoInst /\ ~inst[n].pass /\ inst[n].persist

\* C16: between the steps of the wrapped functions the cache file of a
\* persisted store (swr, memo with persist: true) holds what the store holds
\* in memory: every set and clear has been saved, and the two differ at most
\* by entries past their physical ttl, which no get() returns.  A wrapper
\* made by a process started after a crash holds exactly the file's entries.
C16_SavedAfterMutation ==
  \A n \in Names :
    Persisted(n) =>
      /\ LiveEntries(disk[n], now) = LiveEntries(store[n], now)
      /\ \A i \in 1..Len(store[n]) : \E j \in 1..Len(disk[n]) : disk[n][j] = store[n][i]
      /\ (ev.op = "create" /\ ev.inst = n) => store[n] = disk[n]

\* A process started after a crash has served a call from the value its
\* predecessor saved, without invoking the producer.
C16_Witness ==
  /\ ev.op \in {"hit", "fresh"}
  /\ Persisted(ev.inst)
  /\ calls[ev.inst] = 0
  /\ ev.val = 1
  /\ store[ev.inst] = disk[ev.inst]

LogicalKeys == {deriveKey(args) : args \in ArgLists}
HeldKeys(n) == {k \in LogicalKeys : HasEntry(store[n], k)}

\* C17: in an swr store made with max > 0 (LRU bound 2 * max) every key has
\* both its value entry and its timestamp entry or neither, the store holds
\* at most max keys, and a key whose producer has just resolved is held.
C17_PairsEvictedTogether ==
  \A n \in Names :
    (IsSwr(n) /\ inst[n].lruSize > 0) =>
      /\ \A k \in LogicalKeys : HasEntry(store[n], k) <=> HasEntry(store[n], TimeKey(k))
      /\ Len(store[n]) = 2 * Cardinality(HeldKeys(n))
      /\ 2 * Cardinality(HeldKeys(n)) <= inst[n].lruSize
      /\ (ev.inst = n /\ ev.op \in {"return", "revalidated"}) => SwrHeld(n, ev.key)

\* With max = 1, the second key has pushed out value and timestamp of the
\* first, stored a moment before.
C17_Witness ==
  /\ ev.op = "return"
  /\ IsSwr(ev.inst)
  /\ inst[ev.inst].lruSize = 2
  /\ now = 0
  /\ tasks = {}
  /\ calls[ev.inst] = 2
  /\ origin[ev.inst] = <<<<>>, <<Str("a")>>>>
  /\ ev.val = 2
  /\ HeldKeys(ev.inst) = {deriveKey(<<Str("a")>>)}
  /\ Len(store[ev.inst]) = 2

\* C18: an swr store's physical ttl is twice maxTimeToLive.  Every entry an
\* swr call drops from the store is at least maxTimeToLive old, so its key
\* is expired by the freshness policy too; and a call that blocks on a key
\* whose value and timestamp the store holds does so because the timestamp
\* is at least maxTimeToLive old, never because of the physical ttl.
C18_BackstopAfterExpiry ==
  [][\A n \in Names :
       /\ (ev'.op = "create" /\ ev'.inst = n /\ inst'[n].kind = "swr" /\ ~inst'[n].pass)
            => inst'[n].ttl = 2 * MaxTimeToLive
       /\ IsSwrCall(n)
            => /\ \A i \in 1..Len(store[n]) :
                    ~HasEntry(store'[n], store[n][i].k)
                    => (/\ now - store[n][i].at >= MaxTimeToLive
                        /\ store[n][i].k \in {ev'.key, TimeKey(ev'.key)}
                        /\ SwrHeld(n, ev'.key) => SwrAge(n, ev'.key) >= MaxTimeToLive)
               /\ (ev'.op = "miss" /\ SwrHeld(n, ev'.key))
                    => SwrAge(n, ev'.key) >= MaxTimeToLive]_vars

\* A call has found value and timestamp past the physical ttl, dropped them
\* and is waiting for the producer; the cache file still lists them.
C18_Witness ==
  /\ ev.op = "miss"
  /\ IsSwr(ev.inst)
  /\ ~HasEntry(store[ev.inst], ev.key)
  /\ ~HasEntry(store[ev.inst], TimeKey(ev.key))
  /\ HasEntry(disk[ev.inst], ev.key)
  /\ HasEntry(disk[ev.inst], TimeKey(ev.key))
  /\ now - EntryOf(disk[ev.inst], ev.key).at >= FLAT_CACHE_TTL
  /\ now - EntryOf(disk[ev.inst], TimeKey(ev.key)).v >= FLAT_CACHE_TTL

\* C19: a memo call for a key the store does not hold, made while another
\* invocation for the same key is awaiting its producer, is a miss as well
\* and invokes the producer again; each of the calls returns what its own
\* invocation resolved to, and each return overwrites the stored value, so
\* the store keeps the value of the invocation that resolved last.
C19_NoDedup ==
  [][\A n \in Names :
       /\ (/\ IsMemo(n) /\ ev'.inst = n /\ ev'.op \in CallOps
           /\ FlatGet(store[n], ev'.key, now) = Undefined
           /\ \E t \in tasks : t.inst = n /\ t.args = ev'.args)
          => (/\ ev'.op = "miss"
              /\ calls'[n] = calls[n] + 1
              /\ tasks \subseteq tasks'
              /\ Cardinality(Started) = 1
              /\ \A t \in Started : t.inst = n /\ t.args = ev'.args /\ t.val = calls'[n])
       /\ (IsMemo(n) /\ ev'.inst = n /\ ev'.op = "return")
          => (/\ Cardinality(Settled) = 1
              /\ \A t \in Settled : t.val = ev'.val /\ t.args = ev'.args
              /\ EntryOf(store'[n], ev'.key).v = ev'.val)]_vars

\* Of two overlapping calls with the same arguments the second has returned
\* its own value 2, which the store now holds; the first is still waiting.
C19_Witness ==
  /\ ev.op = "return"
  /\ IsMemo(ev.inst)
  /\ ev.val = 2
  /\ origin[ev.inst] = <<ev.args, ev.args>>
  /\ now = 0
  /\ \E t \in tasks : t.inst = ev.inst /\ t.args = ev.args /\ t.val = 1
  /\ EntryOf(store[ev.inst], ev.key).v = 2

\* C20: the first call after a clear() that returned while invocations of
\* the producer were awaited is not served from the store, and what it
\* returns was produced by an invocation made after that clear().
C20_NothingFromBeforeClear ==
  \A n \in Names :
    (ev.inst = n /\ ev.mark < -1) =>
      /\ ev.op \notin {"hit", "fresh", "stale"}
      /\ ev.op = "return" => ev.val > -2 - ev.mark

\* C21: the registry holds one entry for each wrapper made while caching is
\* enabled: such a creation appends the wrapper at the end, a creation while
\* caching is disabled appends nothing, and no other operation (a call, a
\* settling producer, clear(), clearAllCaches()) changes the registry.
C21_RegistryAppendOnly ==
  [][/\ IF ev'.op = "create"
          THEN caches' = (IF enabled THEN Append(caches, ev'.inst) ELSE caches)
          ELSE caches' = caches
     /\ Len(caches') = Cardinality({n \in Names : inst'[n] # NoInst /\ ~inst'[n].pass})
     /\ \A n \in Names : inst'[n] # NoInst /\ inst'[n].pass
                           => \A i \in 1..Len(caches') : caches'[i] # n]_vars

\* Two wrappers, made in the order 2, 1, have each served a call; a clear()
\* of the first one has left the registry as it was.
C21_Witness ==
  /\ ev.op = "clear"
  /\ ev.inst = 2
  /\ caches = <<2, 1>>
  /\ calls[1] = 1
  /\ calls[2] = 1
  /\ tasks = {}
====
